---- MODULE Spec2Model ----
(***************************************************************************)
(* Model of src/index.ts: a scraper that, per category, launches one       *)
(* browser session, runs three site adapters per ticker concurrently,      *)
(* merges the results and writes a tab-separated report block.             *)
(*                                                                         *)
(* Texts are sequences of one-character strings.  Numbers parsed from      *)
(* page texts are decimal rationals; the arithmetic of growthPercentage    *)
(* and of the report row is IEEE-754 binary64, carried out on fixed-point  *)
(* bit strings and rounded to 53 significant bits after every operation.   *)
(***************************************************************************)
EXTENDS Integers, Sequences, FiniteSets, TLC

(***************************************************************************)
(* Texts                                                                   *)
(***************************************************************************)
Digits == {"0", "1", "2", "3", "4", "5", "6", "7", "8", "9"}

DigitVal(c) ==
    CASE c = "0" -> 0 [] c = "1" -> 1 [] c = "2" -> 2 [] c = "3" -> 3
      [] c = "4" -> 4 [] c = "5" -> 5 [] c = "6" -> 6 [] c = "7" -> 7
      [] c = "8" -> 8 [] c = "9" -> 9

\* String.prototype.replaceAll(ch, ''): every occurrence of ch removed.
RECURSIVE replaceAll(_, _)
replaceAll(s, ch) ==
    IF s = <<>> THEN <<>>
    ELSE IF Head(s) = ch THEN replaceAll(Tail(s), ch)
         ELSE <<Head(s)>> \o replaceAll(Tail(s), ch)

\* String.prototype.substring(1): the text without its first character.
substring1(s) == IF s = <<>> THEN <<>> ELSE Tail(s)

(***************************************************************************)
(* Numbers.  A parsed number is [k |-> "num", n, d] (the rational n/d, d a  *)
(* power of ten, in lowest decimal form) or [k |-> "NaN"].                 *)
(***************************************************************************)
NaN == [k |-> "NaN", n |-> 0, d |-> 1]

RECURSIVE Reduce(_, _)
Reduce(n, d) ==
    IF d > 1 /\ n % 10 = 0 THEN Reduce(n \div 10, d \div 10)
    ELSE [k |-> "num", n |-> n, d |-> d]

Num(n) == [k |-> "num", n |-> n, d |-> 1]

RECURSIVE TrimStart(_)
TrimStart(s) ==
    IF s # <<>> /\ Head(s) = " " THEN TrimStart(Tail(s)) ELSE s

\* The number a string of digits spells.
RECURSIVE DigitsValue(_, _)
DigitsValue(s, acc) ==
    IF s = <<>> THEN acc ELSE DigitsValue(Tail(s), 10 * acc + DigitVal(Head(s)))

\* The digits of a decimal literal at the start of s, with at most one
\* point: n is the number the digits read so far spell, d the power of ten
\* of the digits read after the point, count how many digits were read.
RECURSIVE StrDecimalLiteral(_, _, _, _, _)
StrDecimalLiteral(s, n, d, point, count) ==
    IF s # <<>> /\ Head(s) \in Digits
    THEN StrDecimalLiteral(Tail(s), 10 * n + DigitVal(Head(s)),
                           IF point THEN 10 * d ELSE d, point, count + 1)
    ELSE IF s # <<>> /\ Head(s) = "." /\ ~point
    THEN StrDecimalLiteral(Tail(s), n, d, TRUE, count)
    ELSE [n |-> n, d |-> d, count |-> count]

\* The global parseFloat: leading blanks are skipped, then the longest
\* prefix that is a decimal literal (sign, digits, optional fraction) is
\* converted; whatever follows is ignored; no such prefix gives NaN.
parseFloat(text) ==
    LET t      == TrimStart(text)
        signed == t # <<>> /\ Head(t) \in {"-", "+"}
        lit    == StrDecimalLiteral(IF signed THEN Tail(t) ELSE t, 0, 1, FALSE, 0)
    IN  IF lit.count = 0 THEN NaN
        ELSE Reduce(IF signed /\ Head(t) = "-" THEN -lit.n ELSE lit.n, lit.d)

\* getFloat: the value, or the error it throws.
getFloat(text) ==
    IF text = <<>> THEN [ok |-> FALSE, err |-> "empty", value |-> NaN]
    ELSE LET value == parseFloat(text)
         IN  IF value.k = "NaN"
             THEN [ok |-> FALSE, err |-> "not a number", value |-> NaN]
             ELSE [ok |-> TRUE, err |-> "", value |-> value]

(***************************************************************************)
(* binary64 arithmetic.  A double is [neg, m]: a sign and a magnitude held *)
(* as a fixed-point number of Limbs 16-bit limbs, most significant first,  *)
(* IntLimbs of them before the binary point.  Every operation computes the *)
(* exact result (plus a sticky flag for what was cut off) and rounds it to *)
(* Mantissa significant bits, ties to even.  The layout is wide enough for *)
(* every value the report computes from integers below 2^12: no rounding   *)
(* ever needs a bit beyond the last limb.                                  *)
(***************************************************************************)
Mantissa == 53
LimbBits == 16
IntLimbs == 2
Limbs    == 9
Base     == 65536
Width    == Limbs * LimbBits

Pow2(k) == 2 ^ k

\* Bit j (1 = most significant) of the magnitude m.
Bit(m, j) ==
    (m[((j - 1) \div LimbBits) + 1] \div Pow2(LimbBits - 1 - ((j - 1) % LimbBits))) % 2

\* Index of the first 1 bit, or 0 when there is none.
FirstOne(m) ==
    IF \A i \in 1..Limbs : m[i] = 0 THEN 0
    ELSE LET limb == CHOOSE i \in 1..Limbs :
                        m[i] # 0 /\ \A h \in 1..(i - 1) : m[h] = 0
             top  == CHOOSE b \in 0..(LimbBits - 1) :
                        Pow2(b) <= m[limb] /\ m[limb] < Pow2(b + 1)
         IN  (limb - 1) * LimbBits + (LimbBits - top)

\* m + amount at limb i, the carry running towards the first limb.
RECURSIVE AddAt(_, _, _)
AddAt(m, i, amount) ==
    IF i = 0 \/ amount = 0 THEN m
    ELSE LET v == m[i] + amount
         IN  AddAt([m EXCEPT ![i] = v % Base], i - 1, v \div Base)

\* Round to nearest, ties to even, keeping Mantissa significant bits.
RoundBits(m, sticky) ==
    LET p    == FirstOne(m)
        last == p + Mantissa - 1
    IN  IF p = 0 \/ last >= Width THEN m
        ELSE LET guard == Bit(m, last + 1)
                 rest  == sticky \/ \E j \in (last + 2)..Width : Bit(m, j) = 1
                 limb  == ((last - 1) \div LimbBits) + 1
                 unit  == Pow2(LimbBits - 1 - ((last - 1) % LimbBits))
                 cut   == [i \in 1..Limbs |->
                             IF i < limb THEN m[i]
                             ELSE IF i = limb THEN m[i] - (m[i] % unit)
                             ELSE 0]
             IN  IF guard = 1 /\ (rest \/ Bit(m, last) = 1)
                 THEN AddAt(cut, limb, unit) ELSE cut

\* Long division: the next k limbs of rem/d, and what is left.
RECURSIVE FracDiv(_, _, _, _)
FracDiv(rem, d, k, acc) ==
    IF k = 0 THEN [m |-> acc, rem |-> rem]
    ELSE FracDiv((Base * rem) % d, d, k - 1, Append(acc, (Base * rem) \div d))

\* Magnitude comparison and exact addition/subtraction.
RECURSIVE Less(_, _, _)
Less(a, b, i) ==
    IF i > Limbs THEN FALSE
    ELSE IF a[i] # b[i] THEN a[i] < b[i] ELSE Less(a, b, i + 1)

RECURSIVE AddLimbs(_, _, _, _)
AddLimbs(a, b, i, carry) ==
    IF i = 0 THEN a
    ELSE LET v == a[i] + b[i] + carry
         IN  AddLimbs([a EXCEPT ![i] = v % Base], b, i - 1, v \div Base)

\* a - b for a >= b.
RECURSIVE SubLimbs(_, _, _, _)
SubLimbs(a, b, i, borrow) ==
    IF i = 0 THEN a
    ELSE LET v == a[i] - b[i] - borrow
         IN  SubLimbs([a EXCEPT ![i] = v % Base], b, i - 1, IF v < 0 THEN 1 ELSE 0)

\* m * k for a small natural k.
RECURSIVE MulLimbs(_, _, _, _)
MulLimbs(m, k, i, carry) ==
    IF i = 0 THEN m
    ELSE LET v == m[i] * k + carry
         IN  MulLimbs([m EXCEPT ![i] = v % Base], k, i - 1, v \div Base)

\* m / k for a small natural k > 0: the quotient and the remainder.
RECURSIVE DivLimbs(_, _, _, _)
DivLimbs(m, k, i, rem) ==
    IF i > Limbs THEN [m |-> m, rem |-> rem]
    ELSE LET v == Base * rem + m[i]
         IN  DivLimbs([m EXCEPT ![i] = v \div k], k, i + 1, v % k)

Double(neg, m) == [neg |-> neg /\ FirstOne(m) # 0, m |-> m]

\* The double nearest to the integer quotient n / d (d > 0).
DoubleDiv(n, d) ==
    LET a == IF n < 0 THEN -n ELSE n
        q == a \div d
        f == FracDiv(a % d, d, Limbs - IntLimbs, <<>>)
    IN  Double(n < 0, RoundBits(<<q \div Base, q % Base>> \o f.m, f.rem # 0))

DoubleOf(n) == DoubleDiv(n, 1)

\* x + y, rounded.
DoubleAdd(x, y) ==
    IF x.neg = y.neg
    THEN Double(x.neg, RoundBits(AddLimbs(x.m, y.m, Limbs, 0), FALSE))
    ELSE IF Less(x.m, y.m, 1)
         THEN Double(y.neg, RoundBits(SubLimbs(y.m, x.m, Limbs, 0), FALSE))
         ELSE Double(x.neg, RoundBits(SubLimbs(x.m, y.m, Limbs, 0), FALSE))

DoubleNeg(x) == Double(~x.neg, x.m)

DoubleSub(x, y) == DoubleAdd(x, DoubleNeg(y))

\* x * k and x / k for a small natural k > 0, rounded.
DoubleMul(x, k) == Double(x.neg, RoundBits(MulLimbs(x.m, k, Limbs, 0), FALSE))

DoubleDivBy(x, k) ==
    LET q == DivLimbs(x.m, k, 1, 0)
    IN  Double(x.neg, RoundBits(q.m, q.rem # 0))

\* Math.floor
MathFloor(x) ==
    LET int  == x.m[1] * Base + x.m[2]
        frac == \E i \in (IntLimbs + 1)..Limbs : x.m[i] # 0
    IN  IF ~x.neg THEN int
        ELSE IF frac THEN -(int + 1) ELSE -int

(***************************************************************************)
(* growthPercentage (a double, or one of the non-finite values a zero      *)
(* price produces).  The operands are parsed numbers whose value a double  *)
(* holds exactly (integers, dyadic fractions).                             *)
(***************************************************************************)
Finite(x) == [k |-> "num", v |-> x]

NonFinite(k) == [k |-> k, v |-> DoubleOf(0)]

\* The double n / d of two integers, non-finite when d is zero.
DivX(n, d) ==
    IF d = 0
    THEN NonFinite(IF n = 0 THEN "NaN"
                   ELSE IF n > 0 THEN "Infinity" ELSE "-Infinity")
    ELSE Finite(IF d > 0 THEN DoubleDiv(n, d) ELSE DoubleDiv(-n, -d))

\* prediction / price
Quotient(price, prediction) ==
    DivX(prediction.n * price.d, prediction.d * price.n)

growthPercentage(price, prediction) ==
    LET q == Quotient(price, prediction)
    IN  IF q.k = "num"
        THEN Finite(DoubleMul(DoubleSub(q.v, DoubleOf(1)), 100))
        ELSE q

\* Values that may be non-finite: sums, quotients by three, Math.floor.
AddX(x, y) ==
    IF x.k = "NaN" \/ y.k = "NaN" THEN NonFinite("NaN")
    ELSE IF x.k = "num" /\ y.k = "num" THEN Finite(DoubleAdd(x.v, y.v))
    ELSE IF x.k = "num" THEN y
    ELSE IF y.k = "num" \/ x.k = y.k THEN x
    ELSE NonFinite("NaN")

DivByX(x, k) == IF x.k = "num" THEN Finite(DoubleDivBy(x.v, k)) ELSE x

\* Math.floor of such a value, as it prints: an integer, or the name of the
\* non-finite value.
FloorX(x) ==
    IF x.k = "num" THEN [k |-> "num", n |-> MathFloor(x.v)] ELSE [k |-> x.k, n |-> 0]

\* Number.prototype.toFixed(2) of a finite double, as the count of
\* hundredths it prints (1000 for "10.00"): the integer n with n/100
\* nearest to x, the larger one on a tie.
toFixed2(x) ==
    LET h     == MulLimbs(x.m, 100, Limbs, 0)
        int   == h[1] * Base + h[2]
        half  == h[IntLimbs + 1] >= Base \div 2
        tie   == h[IntLimbs + 1] = Base \div 2
                   /\ \A i \in (IntLimbs + 2)..Limbs : h[i] = 0
    IN  IF ~x.neg THEN (IF half THEN int + 1 ELSE int)
        ELSE (IF half /\ ~tie THEN -(int + 1) ELSE -int)

(***************************************************************************)
(* Objects with string keys.  [keys, val]: keys in the order for-in and    *)
(* Object.keys enumerate them (array-index keys first, ascending, then the *)
(* other keys in the order they were created), val the value of each key.  *)
(***************************************************************************)
IsArrayIndex(key) ==
    /\ key # <<>>
    /\ Len(key) <= 9
    /\ \A i \in 1..Len(key) : key[i] \in Digits
    /\ (Len(key) = 1 \/ key[1] # "0")

EmptyObject == [keys |-> <<>>, val |-> <<>>]

HasKey(obj, key) == \E i \in 1..Len(obj.keys) : obj.keys[i] = key

\* Where a new key goes in the enumeration order.
InsertAt(keys, key) ==
    IF IsArrayIndex(key)
    THEN Cardinality({i \in 1..Len(keys) :
                         /\ IsArrayIndex(keys[i])
                         /\ DigitsValue(keys[i], 0) < DigitsValue(key, 0)}) + 1
    ELSE Len(keys) + 1

\* obj[key] = value (CreateDataProperty): an existing key keeps its place.
PutProperty(obj, key, value) ==
    IF HasKey(obj, key)
    THEN LET i == CHOOSE j \in 1..Len(obj.keys) : obj.keys[j] = key
         IN  [obj EXCEPT !.val[i] = value]
    ELSE LET at == InsertAt(obj.keys, key)
         IN  [keys |-> SubSeq(obj.keys, 1, at - 1) \o <<key>>
                          \o SubSeq(obj.keys, at, Len(obj.keys)),
              val  |-> SubSeq(obj.val, 1, at - 1) \o <<value>>
                          \o SubSeq(obj.val, at, Len(obj.val))]

\* Object.fromEntries(summaries.map((s, i) => [tickers[i], s]))
RECURSIVE fromEntries(_, _, _, _)
fromEntries(tickers, summaries, i, obj) ==
    IF i > Len(summaries) THEN obj
    ELSE fromEntries(tickers, summaries, i + 1,
                     PutProperty(obj, tickers[i], summaries[i]))

(***************************************************************************)
(* The report block of one category (processCategory, after getSummaries   *)
(* has returned): a header line, one row per key of the mapping in for-in  *)
(* order, a blank line.                                                    *)
(***************************************************************************)
HeaderLine(category) == [line |-> "header", category |-> category]

BlankLine == [line |-> "blank"]

\* `${value} (${Math.floor(percentage)}%)`
Cell(value, percentage) == [value |-> value, floor |-> FloorX(percentage)]

\* `${weekGrowthPercentage.toFixed(2)}%`
WeekCell(week) ==
    IF week.k = "num" THEN [k |-> "num", n |-> toFixed2(week.v)]
    ELSE [k |-> week.k, n |-> 0]

RowLine(ticker, summary) ==
    LET price                 == summary.yahooFinance.price
        zacksPercentage       == growthPercentage(price, summary.predictions.zacks)
        alphaspreadPercentage == growthPercentage(price, summary.predictions.alphaspread)
        yahooPercentage       == growthPercentage(price, summary.predictions.alphaspread)
    IN  [line        |-> "row",
         ticker      |-> ticker,
         price       |-> price,
         zacks       |-> Cell(summary.predictions.zacks, zacksPercentage),
         alphaspread |-> Cell(summary.predictions.alphaspread, alphaspreadPercentage),
         yahoo       |-> Cell(summary.predictions.yahoo, yahooPercentage),
         average     |-> FloorX(DivByX(AddX(AddX(zacksPercentage, alphaspreadPercentage),
                                            yahooPercentage), 3)),
         week        |-> WeekCell(summary.yahooFinance.weekGrowthPercentage)]

processCategoryLines(category, summaries) ==
    <<HeaderLine(category)>>
      \o [i \in 1..Len(summaries.keys) |-> RowLine(summaries.keys[i], summaries.val[i])]
      \o <<BlankLine>>

(***************************************************************************)
(* The run: its configuration and what the sites may answer.               *)
(***************************************************************************)
\* The categories of the run driver, scaled down: two categories, and a
\* ticker whose name is a number (a Tokyo listing) among them.
Categories ==
    << [label |-> "Safe", tickers |-> << <<"K", "O">>, <<"7", "2", "0", "3">> >>],
       [label |-> "REIT", tickers |-> << <<"O", "H", "I">> >>] >>

\* How many times in a run a site may answer otherwise than with the
\* expected element and text.
MaxFaults == 1

\* The texts the elements hold when all is well, and the others they may hold.
PriceText       == <<"1", "0", "0">>
PredictionText  == <<"1", "0", "5">>
FieldText       == <<"N", "/", "A">>
ZacksText       == <<"$", "1", "2", "0">>
AlphaspreadText == <<"9", "0", " ", "U", "S", "D">>

PriceTexts       == {PriceText, <<"0">>}
PredictionTexts  == {PredictionText, FieldText}
FieldTexts       == {FieldText}
ZacksTexts       == {ZacksText}
AlphaspreadTexts == {AlphaspreadText}

\* What waiting for an element and reading it may give: the element with a
\* text, the element without text content, no element within the timeout,
\* a null handle, or a fault of the operation performed on the handle.
ElementOutcomes(texts) ==
    {[kind |-> "text", text |-> t] : t \in texts}
      \cup {[kind |-> k, text |-> <<>>] : k \in {"nocontent", "timeout", "null", "fault"}}

\* The fields that are only carried along always have their text.
FieldOutcomes == {o \in ElementOutcomes(FieldTexts) : o.kind # "nocontent"}

Cost(o, expected) == IF o.kind = "text" /\ o.text = expected THEN 0 ELSE 1

\* The history table: rows newest first, each <<day, cell 1, cell 2>>, the
\* day being the date its first cell parses to.  Monday is the start of the
\* current week.
Monday == 10

WeekRows  == << <<12, <<"1", "1", "0">>, <<"1", "1", "1">>>>,
                <<10, <<"9", "9">>, <<"1", "0", "0">>>>,
                <<7, <<"9", "8">>, <<"9", "9">>>> >>
StaleRows == << <<7, <<"9", "8">>, <<"9", "9">>>> >>

HistoryOutcomes == {WeekRows, StaleRows}

HistoryCost(rows) == IF rows = WeekRows THEN 0 ELSE 1

(***************************************************************************)
(* getElTextFromXpath, from the outcome of the wait to its return: the     *)
(* text or the error thrown, and the handles left undisposed.              *)
(***************************************************************************)
getElTextFromXpath(o) ==
    IF o.kind = "timeout"
    THEN [ok |-> FALSE, text |-> <<>>, err |-> "TimeoutError", leaked |-> 0]
    ELSE IF o.kind = "null"
    THEN [ok |-> FALSE, text |-> <<>>, err |-> "not found", leaked |-> 0]
    ELSE IF o.kind = "fault"
    THEN [ok |-> FALSE, text |-> <<>>, err |-> "evaluate failed", leaked |-> 1]
    ELSE [ok |-> TRUE, text |-> IF o.kind = "nocontent" THEN <<>> ELSE o.text,
          err |-> "", leaked |-> 0]

(***************************************************************************)
(* State                                                                   *)
(***************************************************************************)
VARIABLES
    categories, \* the run's configuration: the (label, tickers) pairs, in order
    cat,      \* the category the run driver is at
    driver,   \* "processCategory", "sleep", "done" or "rejected"
    fd,       \* the descriptor of output.sheets: "open" or "closed"
    output,   \* the lines written to it
    browser,  \* per category, its session: "none", "open", "closing", "closed"
    batch,    \* per category, where processCategory/getSummaries stands
    task,     \* per category and ticker position, the three adapter calls
    summary,  \* per category and ticker position, the promise of getSummary
    written,  \* per category, the number of lines its processCategory wrote
    faults    \* unexpected answers the sites may still give

vars == <<categories, cat, driver, fd, output, browser, batch, task, summary,
          written, faults>>

Sites == {"yahoo", "zacks", "alphaspread"}

CatIds == DOMAIN categories

NumCategories == Len(categories)

tickersOf(c) == categories[c].tickers

\* An adapter call: the await it is suspended at (or how it settled), its
\* page, the element handles it holds undisposed, whether a wait for an
\* element of its page timed out, what it has read, and the error it was
\* rejected with.
YahooBlank ==
    [price |-> NaN, earningsDate |-> <<>>, dividendAndYield |-> <<>>,
     exDividendDate |-> <<>>, prediction |-> NaN,
     weekGrowthPercentage |-> NonFinite("NaN")]

NewTask(site) ==
    [pc |-> "newPage", page |-> "none", handles |-> 0, err |-> "", timedout |-> FALSE,
     data |-> IF site = "yahoo" THEN YahooBlank
              ELSE IF site = "zacks" THEN [predictionText |-> <<>>, value |-> NaN]
              ELSE [predictionText |-> <<"0">>, value |-> NaN]]

Settled(t) == t.pc \in {"fulfilled", "rejected"}

\* A rejected call: the error, the page and the handles it leaves behind.
Rejected(t, err, leaked) ==
    [pc |-> "rejected", page |-> t.page, handles |-> t.handles + leaked,
     err |-> err, timedout |-> t.timedout \/ err = "TimeoutError", data |-> <<>>]

PendingSummary == [state |-> "pending", err |-> "", value |-> <<>>]

Init ==
    /\ categories = Categories
    /\ cat = 1
    /\ driver = "processCategory"
    /\ fd = "open"
    /\ output = <<>>
    /\ browser = [c \in CatIds |-> "none"]
    /\ batch = [c \in CatIds |-> IF c = 1 THEN "launch" ELSE "idle"]
    /\ task = [c \in CatIds |-> <<>>]
    /\ summary = [c \in CatIds |-> <<>>]
    /\ written = [c \in CatIds |-> 0]
    /\ faults = MaxFaults

(***************************************************************************)
(* Promise.all and what runs when an adapter call settles.  Promise        *)
(* reactions are microtasks: when the call settles, the continuation of    *)
(* getSummary, then of getSummaries, of processCategory and of the driver  *)
(* run before any other I/O completion is handled, so they are part of the *)
(* step that settles the call.                                             *)
(***************************************************************************)
\* getSummary as it would be if a failure of the primary adapter were
\* caught and an empty record put in its place.
getSummary_primaryCaught(calls, promise, site) ==
    IF promise.state # "pending" THEN promise
    ELSE IF site # "yahoo" /\ calls[site].pc = "rejected"
    THEN [state |-> "rejected", err |-> calls[site].err, value |-> <<>>]
    ELSE IF \A s \in Sites : calls[s].pc \in {"fulfilled", "rejected"}
    THEN [state |-> "fulfilled", err |-> "",
          value |-> [yahooFinance |-> IF calls.yahoo.pc = "fulfilled"
                                      THEN calls.yahoo.data ELSE YahooBlank,
                     predictions  |-> [zacks       |-> calls.zacks.data.value,
                                       alphaspread |-> calls.alphaspread.data.value,
                                       yahoo       |-> IF calls.yahoo.pc = "fulfilled"
                                                       THEN calls.yahoo.data.prediction
                                                       ELSE NaN]]]
    ELSE promise

\* getSummary as it would be if any failure of a secondary adapter were
\* caught and the sentinel 0 put in its place.
getSummary_secondaryCaught(calls, promise, site) ==
    IF promise.state # "pending" THEN promise
    ELSE IF calls.yahoo.pc = "rejected"
    THEN [state |-> "rejected", err |-> calls.yahoo.err, value |-> <<>>]
    ELSE IF \A s \in Sites : calls[s].pc \in {"fulfilled", "rejected"}
    THEN [state |-> "fulfilled", err |-> "",
          value |-> [yahooFinance |-> calls.yahoo.data,
                     predictions  |-> [zacks       |-> IF calls.zacks.pc = "fulfilled"
                                                       THEN calls.zacks.data.value
                                                       ELSE Num(0),
                                       alphaspread |-> IF calls.alphaspread.pc = "fulfilled"
                                                       THEN calls.alphaspread.data.value
                                                       ELSE Num(0),
                                       yahoo       |-> calls.yahoo.data.prediction]]]
    ELSE promise

\* getSummary: await Promise.all of the three calls, then the return.
getSummary(calls, promise, site) ==
    IF promise.state # "pending" THEN promise
    ELSE IF calls[site].pc = "rejected"
    THEN [state |-> "rejected", err |-> calls[site].err, value |-> <<>>]
    ELSE IF \A s \in Sites : calls[s].pc = "fulfilled"
    THEN [state |-> "fulfilled", err |-> "",
          value |-> [yahooFinance |-> calls.yahoo.data,
                     predictions  |-> [zacks       |-> calls.zacks.data.value,
                                       alphaspread |-> calls.alphaspread.data.value,
                                       yahoo       |-> calls.yahoo.data.prediction]]]
    ELSE promise

\* getSummariesAll as it would be if getSummaries closed the browser in a
\* finally around its Promise.all: a rejection goes on to browser.close().
getSummariesAll_finally(state, promises, i) ==
    IF state # "all" THEN state
    ELSE IF promises[i].state = "rejected" THEN "close"
    ELSE IF \A j \in 1..Len(promises) : promises[j].state = "fulfilled" THEN "close"
    ELSE "all"

\* getSummaries: await Promise.all of the getSummary promises; where the
\* batch stands once promise i has been updated.
getSummariesAll(state, promises, i) ==
    IF state # "all" THEN state
    ELSE IF promises[i].state = "rejected" THEN "rejected"
    ELSE IF \A j \in 1..Len(promises) : promises[j].state = "fulfilled" THEN "close"
    ELSE "all"

\* An adapter call moves on without settling.
Continue(c, i, site, t, cost) ==
    /\ task' = [task EXCEPT ![c][i][site] = t]
    /\ faults' = faults - cost
    /\ UNCHANGED <<categories, cat, driver, fd, output, browser, batch, summary, written>>

\* An adapter call settles as t.  A rejected batch rejects processCategory
\* and, no handler being attached, the whole chain of the driver; a
\* fulfilled one goes on to browser.close().
Settle(c, i, site, t, cost) ==
    LET calls    == [task[c][i] EXCEPT ![site] = t]
        promise  == getSummary(calls, summary[c][i], site)
        promises == [summary[c] EXCEPT ![i] = promise]
        state    == getSummariesAll(batch[c], promises, i)
    IN  /\ task' = [task EXCEPT ![c][i] = calls]
        /\ summary' = [summary EXCEPT ![c] = promises]
        /\ batch' = [batch EXCEPT ![c] = state]
        /\ browser' = IF state = "close" /\ batch[c] = "all"
                      THEN [browser EXCEPT ![c] = "closing"] ELSE browser
        /\ driver' = IF state = "rejected" /\ batch[c] = "all"
                     THEN "rejected" ELSE driver
        /\ faults' = faults - cost
        /\ UNCHANGED <<categories, cat, fd, output, written>>

At(c, i, site, pc) ==
    /\ c \in CatIds
    /\ i \in 1..Len(task[c])
    /\ task[c][i][site].pc = pc

(***************************************************************************)
(* getSummaries and processCategory                                        *)
(***************************************************************************)
\* Launched as it would be if getSummaries awaited each getSummary before
\* calling the next: only the first ticker's aggregation is started.
Launched_oneByOne ==
    /\ driver = "processCategory"
    /\ batch[cat] = "launch"
    /\ browser' = [browser EXCEPT ![cat] = "open"]
    /\ task' = [task EXCEPT ![cat] = <<[s \in Sites |-> NewTask(s)]>>]
    /\ summary' = [summary EXCEPT ![cat] = <<PendingSummary>>]
    /\ batch' = [batch EXCEPT ![cat] = "all"]
    /\ UNCHANGED <<categories, cat, driver, fd, output, written, faults>>

\* puppeteer.launch() resolves: every getSummary is called, and every
\* adapter runs up to its browser.newPage().
Launched ==
    /\ driver = "processCategory"
    /\ batch[cat] = "launch"
    /\ browser' = [browser EXCEPT ![cat] = "open"]
    /\ task' = [task EXCEPT ![cat] =
                  [i \in 1..Len(tickersOf(cat)) |-> [s \in Sites |-> NewTask(s)]]]
    /\ summary' = [summary EXCEPT ![cat] =
                  [i \in 1..Len(tickersOf(cat)) |-> PendingSummary]]
    /\ batch' = [batch EXCEPT ![cat] = "all"]
    /\ UNCHANGED <<categories, cat, driver, fd, output, written, faults>>

\* getSummariesResult as it would be if the summaries were paired with the
\* tickers in another order than that of the calls (here the reverse).
getSummariesResult_reversed(c) ==
    fromEntries(tickersOf(c),
                [i \in 1..Len(summary[c]) |-> summary[c][Len(summary[c]) + 1 - i].value],
                1, EmptyObject)

\* What getSummaries returns.
getSummariesResult(c) ==
    fromEntries(tickersOf(c), [i \in 1..Len(summary[c]) |-> summary[c][i].value],
                1, EmptyObject)

\* BrowserClosed as it would be if the driver called the next
\* processCategory as soon as the block is written, with no sleep between.
BrowserClosed_noSleep ==
    /\ batch[cat] = "close"
    /\ browser' = [browser EXCEPT ![cat] = "closed"]
    /\ LET lines == processCategoryLines(categories[cat].label, getSummariesResult(cat))
       IN  /\ output' = output \o lines
           /\ written' = [written EXCEPT ![cat] = @ + Len(lines)]
    /\ IF cat < NumCategories
       THEN /\ driver' = "processCategory"
            /\ fd' = fd
            /\ cat' = cat + 1
            /\ batch' = [batch EXCEPT ![cat] = "returned", ![cat + 1] = "launch"]
       ELSE /\ driver' = "done"
            /\ fd' = "closed"
            /\ cat' = cat
            /\ batch' = [batch EXCEPT ![cat] = "returned"]
    /\ UNCHANGED <<categories, task, summary, faults>>

\* browser.close() resolves: getSummaries returns the mapping,
\* processCategory writes the block and returns, and the driver goes on:
\* to the sleep before the next category, or to fs.closeSync after the last.
BrowserClosed ==
    /\ batch[cat] = "close"
    /\ browser' = [browser EXCEPT ![cat] = "closed"]
    /\ batch' = [batch EXCEPT ![cat] = "returned"]
    /\ LET lines == processCategoryLines(categories[cat].label, getSummariesResult(cat))
       IN  /\ output' = output \o lines
           /\ written' = [written EXCEPT ![cat] = @ + Len(lines)]
    /\ IF cat < NumCategories
       THEN driver' = "sleep" /\ fd' = fd
       ELSE driver' = "done" /\ fd' = "closed"
    /\ UNCHANGED <<categories, cat, task, summary, faults>>

\* SleepDone as it would be if the driver went on to the next category
\* after a rejected one too (a catch in the chain of the driver).
SleepDone_afterCatch ==
    /\ driver \in {"sleep", "rejected"}
    /\ cat < NumCategories
    /\ cat' = cat + 1
    /\ driver' = "processCategory"
    /\ batch' = [batch EXCEPT ![cat + 1] = "launch"]
    /\ UNCHANGED <<categories, fd, output, browser, task, summary, written, faults>>

\* SleepDone as it would be if the driver closed the file in between two
\* categories.
SleepDone_closeSync ==
    /\ driver = "sleep"
    /\ cat' = cat + 1
    /\ driver' = "processCategory"
    /\ fd' = "closed"
    /\ batch' = [batch EXCEPT ![cat + 1] = "launch"]
    /\ UNCHANGED <<categories, output, browser, task, summary, written, faults>>

\* The timer of sleep fires: processCategory of the next category is
\* called and runs up to puppeteer.launch().
SleepDone ==
    /\ driver = "sleep"
    /\ cat' = cat + 1
    /\ driver' = "processCategory"
    /\ batch' = [batch EXCEPT ![cat + 1] = "launch"]
    /\ UNCHANGED <<categories, fd, output, browser, task, summary, written, faults>>

(***************************************************************************)
(* The adapters.  A call's page and handles are its own, so consecutive    *)
(* awaits on them are taken in one step: setJavaScriptEnabled and goto     *)
(* with the element read that follows, and the wait for an element with    *)
(* the operation on its handle and the dispose.                            *)
(***************************************************************************)
\* browser.newPage() resolves.
newPage(c, i, site) ==
    /\ At(c, i, site, "newPage")
    /\ Continue(c, i, site,
                [task[c][i][site] EXCEPT
                    !.pc = IF site = "yahoo" THEN "goto" ELSE "predictionText",
                    !.page = "open"], 0)

\* What the quote page may do: load, or redirect to the consent page, where
\* the "accept all" control is waited for, clicked and disposed.
ConsentOutcomes == {"none", "accepted", "timeout", "null", "fault"}

ConsentCost(o) == IF o \in {"none", "accepted"} THEN 0 ELSE 1

getYahooFinanceData_goto(c, i) ==
    /\ At(c, i, "yahoo", "goto")
    /\ \E o \in ConsentOutcomes :
          /\ ConsentCost(o) <= faults
          /\ LET t == task[c][i].yahoo
             IN  IF o = "timeout"
                 THEN Settle(c, i, "yahoo", Rejected(t, "TimeoutError", 0), 1)
                 ELSE IF o = "null"
                 THEN Settle(c, i, "yahoo", Rejected(t, "acceptTerms not found", 0), 1)
                 ELSE IF o = "fault"
                 THEN Settle(c, i, "yahoo", Rejected(t, "click failed", 1), 1)
                 ELSE Continue(c, i, "yahoo", [t EXCEPT !.pc = "price"], 0)

\* The price and the prediction: read, then parsed with getFloat.
YahooNumber(c, i, pc, next, texts, expected) ==
    /\ At(c, i, "yahoo", pc)
    /\ \E o \in ElementOutcomes(texts) :
          /\ Cost(o, expected) <= faults
          /\ LET t == task[c][i].yahoo
                 r == getElTextFromXpath(o)
                 f == getFloat(IF pc = "price" THEN replaceAll(r.text, ",") ELSE r.text)
             IN  IF ~r.ok
                 THEN Settle(c, i, "yahoo", Rejected(t, r.err, r.leaked), Cost(o, expected))
                 ELSE IF ~f.ok
                 THEN Settle(c, i, "yahoo", Rejected(t, f.err, 0), Cost(o, expected))
                 ELSE Continue(c, i, "yahoo",
                               [t EXCEPT !.pc = next, !.data[pc] = f.value],
                               Cost(o, expected))

getYahooFinanceData_price(c, i) ==
    YahooNumber(c, i, "price", "earningsDate", PriceTexts, PriceText)

getYahooFinanceData_prediction(c, i) ==
    YahooNumber(c, i, "prediction", "history", PredictionTexts, PredictionText)

\* earningsDate, dividendAndYield, exDividendDate: read and kept as text.
YahooField(c, i, pc, next) ==
    /\ At(c, i, "yahoo", pc)
    /\ \E o \in FieldOutcomes :
          /\ Cost(o, FieldText) <= faults
          /\ LET t == task[c][i].yahoo
                 r == getElTextFromXpath(o)
             IN  IF ~r.ok
                 THEN Settle(c, i, "yahoo", Rejected(t, r.err, r.leaked), Cost(o, FieldText))
                 ELSE Continue(c, i, "yahoo",
                               [t EXCEPT !.pc = next, !.data[pc] = r.text],
                               Cost(o, FieldText))

getYahooFinanceData_earningsDate(c, i) ==
    YahooField(c, i, "earningsDate", "dividendAndYield")

getYahooFinanceData_dividendAndYield(c, i) ==
    YahooField(c, i, "dividendAndYield", "exDividendDate")

getYahooFinanceData_exDividendDate(c, i) ==
    YahooField(c, i, "exDividendDate", "prediction")

\* weekGrowthPercentage as it would be if an empty week gave the default
\* growth 0 instead of an error.
weekGrowthPercentage_default(lastTenDaysHistory) ==
    LET weekHistory == SelectSeq(lastTenDaysHistory, LAMBDA e : e[1] >= Monday)
    IN  IF weekHistory = <<>>
        THEN [ok |-> TRUE, err |-> "", value |-> Finite(DoubleOf(0))]
        ELSE LET weekOpen  == getFloat(replaceAll(weekHistory[Len(weekHistory)][3], ","))
                 weekClose == getFloat(replaceAll(weekHistory[1][2], ","))
             IN  IF ~weekOpen.ok
                 THEN [ok |-> FALSE, err |-> weekOpen.err, value |-> NonFinite("NaN")]
                 ELSE IF ~weekClose.ok
                 THEN [ok |-> FALSE, err |-> weekClose.err, value |-> NonFinite("NaN")]
                 ELSE LET o == weekOpen.value
                          q == weekClose.value
                          r == DivX(q.n * o.d - o.n * q.d, q.d * o.n)
                      IN  [ok |-> TRUE, err |-> "",
                           value |-> IF r.k = "num" THEN Finite(DoubleMul(r.v, 100)) ELSE r]

\* The week's growth from the rows of the history table.
weekGrowthPercentage(lastTenDaysHistory) ==
    LET weekHistory == SelectSeq(lastTenDaysHistory, LAMBDA e : e[1] >= Monday)
    IN  IF weekHistory = <<>>
        THEN [ok |-> FALSE, err |-> "TypeError", value |-> NonFinite("NaN")]
        ELSE LET weekOpen  == getFloat(replaceAll(weekHistory[Len(weekHistory)][3], ","))
                 weekClose == getFloat(replaceAll(weekHistory[1][2], ","))
             IN  IF ~weekOpen.ok
                 THEN [ok |-> FALSE, err |-> weekOpen.err, value |-> NonFinite("NaN")]
                 ELSE IF ~weekClose.ok
                 THEN [ok |-> FALSE, err |-> weekClose.err, value |-> NonFinite("NaN")]
                 ELSE LET o == weekOpen.value
                          q == weekClose.value
                          r == DivX(q.n * o.d - o.n * q.d, q.d * o.n)
                      IN  [ok |-> TRUE, err |-> "",
                           value |-> IF r.k = "num" THEN Finite(DoubleMul(r.v, 100)) ELSE r]

\* The history page is loaded and its rows are read.
getYahooFinanceData_history(c, i) ==
    /\ At(c, i, "yahoo", "history")
    /\ \E rows \in HistoryOutcomes :
          /\ HistoryCost(rows) <= faults
          /\ LET t == task[c][i].yahoo
                 w == weekGrowthPercentage(rows)
             IN  IF ~w.ok
                 THEN Settle(c, i, "yahoo", Rejected(t, w.err, 0), HistoryCost(rows))
                 ELSE Continue(c, i, "yahoo",
                               [t EXCEPT !.pc = "close",
                                         !.data.weekGrowthPercentage = w.value],
                               HistoryCost(rows))

\* page.close() resolves and the record is returned.
getYahooFinanceData_close(c, i) ==
    /\ At(c, i, "yahoo", "close")
    /\ Settle(c, i, "yahoo",
              [task[c][i].yahoo EXCEPT !.pc = "fulfilled", !.page = "closed"], 0)

\* getZacksPrediction: the prediction element is read.
getZacksPrediction_predictionText(c, i) ==
    /\ At(c, i, "zacks", "predictionText")
    /\ \E o \in ElementOutcomes(ZacksTexts) :
          /\ Cost(o, ZacksText) <= faults
          /\ LET t == task[c][i].zacks
                 r == getElTextFromXpath(o)
             IN  IF ~r.ok
                 THEN Settle(c, i, "zacks", Rejected(t, r.err, r.leaked), Cost(o, ZacksText))
                 ELSE Continue(c, i, "zacks",
                               [t EXCEPT !.pc = "close", !.data.predictionText = r.text],
                               Cost(o, ZacksText))

\* page.close() resolves; the text is parsed and returned.
getZacksPrediction_close(c, i) ==
    /\ At(c, i, "zacks", "close")
    /\ LET t == [task[c][i].zacks EXCEPT !.page = "closed"]
           f == getFloat(replaceAll(substring1(t.data.predictionText), ","))
       IN  IF ~f.ok
           THEN Settle(c, i, "zacks", Rejected(t, f.err, 0), 0)
           ELSE Settle(c, i, "zacks", [t EXCEPT !.pc = "fulfilled", !.data.value = f.value], 0)

\* getAlphaspreadPrediction: the prediction element is read; a timeout is
\* logged and leaves the text '0', any other error is thrown again.
getAlphaspreadPrediction_predictionText(c, i) ==
    /\ At(c, i, "alphaspread", "predictionText")
    /\ \E o \in ElementOutcomes(AlphaspreadTexts) :
          /\ Cost(o, AlphaspreadText) <= faults
          /\ LET t == task[c][i].alphaspread
                 r == getElTextFromXpath(o)
             IN  IF r.ok
                 THEN Continue(c, i, "alphaspread",
                               [t EXCEPT !.pc = "close", !.data.predictionText = r.text],
                               Cost(o, AlphaspreadText))
                 ELSE IF r.err = "TimeoutError"
                 THEN Continue(c, i, "alphaspread",
                               [t EXCEPT !.pc = "close", !.timedout = TRUE],
                               Cost(o, AlphaspreadText))
                 ELSE Settle(c, i, "alphaspread", Rejected(t, r.err, r.leaked),
                             Cost(o, AlphaspreadText))

\* page.close() resolves; the text is parsed and returned.
getAlphaspreadPrediction_close(c, i) ==
    /\ At(c, i, "alphaspread", "close")
    /\ LET t == [task[c][i].alphaspread EXCEPT !.page = "closed"]
           f == getFloat(replaceAll(t.data.predictionText, " "))
       IN  IF ~f.ok
           THEN Settle(c, i, "alphaspread", Rejected(t, f.err, 0), 0)
           ELSE Settle(c, i, "alphaspread",
                       [t EXCEPT !.pc = "fulfilled", !.data.value = f.value], 0)

\* The getSummary calls of the run: category and position in its ticker list.
Calls == UNION {{<<c, i>> : i \in 1..Len(tickersOf(c))} : c \in CatIds}

Next ==
    \/ Launched
    \/ \E x \in Calls, site \in Sites : newPage(x[1], x[2], site)
    \/ \E x \in Calls : getYahooFinanceData_goto(x[1], x[2])
    \/ \E x \in Calls : getYahooFinanceData_price(x[1], x[2])
    \/ \E x \in Calls : getYahooFinanceData_earningsDate(x[1], x[2])
    \/ \E x \in Calls : getYahooFinanceData_dividendAndYield(x[1], x[2])
    \/ \E x \in Calls : getYahooFinanceData_exDividendDate(x[1], x[2])
    \/ \E x \in Calls : getYahooFinanceData_prediction(x[1], x[2])
    \/ \E x \in Calls : getYahooFinanceData_history(x[1], x[2])
    \/ \E x \in Calls : getYahooFinanceData_close(x[1], x[2])
    \/ \E x \in Calls : getZacksPrediction_predictionText(x[1], x[2])
    \/ \E x \in Calls : getZacksPrediction_close(x[1], x[2])
    \/ \E x \in Calls : getAlphaspreadPrediction_predictionText(x[1], x[2])
    \/ \E x \in Calls : getAlphaspreadPrediction_close(x[1], x[2])
    \/ BrowserClosed
    \/ SleepDone

Spec == Init /\ [][Next]_vars

(***************************************************************************)
(* The report of one category for every small ticker list and every        *)
(* result of its batch: the run starts where the last adapter call of a    *)
(* one-category run has just been fulfilled and browser.close() is         *)
(* awaited.                                                                *)
(***************************************************************************)
MaxTickers == 2

TickerNames == {<<"K", "O">>, <<"7", "2", "0", "3">>, <<"P", "G">>}

TickerLists == UNION {[1..n -> TickerNames] : n \in 1..MaxTickers}

\* What the three calls of one ticker may have returned.
Results ==
    [price : {Num(100)}, zacks : {Num(120), Num(110)},
     alphaspread : {Num(90), Num(0)}, yahoo : {Num(105)}]

FulfilledCalls(r) ==
    [yahoo |->
        [pc |-> "fulfilled", page |-> "closed", handles |-> 0, err |-> "",
         timedout |-> FALSE,
         data |-> [YahooBlank EXCEPT !.price = r.price, !.prediction = r.yahoo,
                                     !.earningsDate = FieldText,
                                     !.dividendAndYield = FieldText,
                                     !.exDividendDate = FieldText,
                                     !.weekGrowthPercentage =
                                         weekGrowthPercentage(WeekRows).value]],
     zacks |->
        [pc |-> "fulfilled", page |-> "closed", handles |-> 0, err |-> "",
         timedout |-> FALSE,
         data |-> [predictionText |-> ZacksText, value |-> r.zacks]],
     alphaspread |->
        [pc |-> "fulfilled", page |-> "closed", handles |-> 0, err |-> "",
         timedout |-> r.alphaspread = Num(0),
         data |-> [predictionText |-> IF r.alphaspread = Num(0) THEN <<"0">>
                                      ELSE AlphaspreadText,
                   value |-> r.alphaspread]]]

ReportInit ==
    \E tickers \in TickerLists : \E results \in [1..Len(tickers) -> Results] :
        /\ categories = <<[label |-> "Safe", tickers |-> tickers]>>
        /\ cat = 1
        /\ driver = "processCategory"
        /\ fd = "open"
        /\ output = <<>>
        /\ browser = <<"closing">>
        /\ batch = <<"close">>
        /\ task = <<[i \in 1..Len(tickers) |-> FulfilledCalls(results[i])]>>
        /\ summary = <<[i \in 1..Len(tickers) |->
                          getSummary(FulfilledCalls(results[i]), PendingSummary, "yahoo")]>>
        /\ written = <<0>>
        /\ faults = 0

ReportNext == BrowserClosed

ReportSpec == ReportInit /\ [][ReportNext]_vars

(***************************************************************************)
(* getFloat on its own: an Alphaspread call that has read its element, for  *)
(* every short text over a few characters, the other two calls of the      *)
(* ticker having returned.                                                 *)
(***************************************************************************)
MaxTextLen == 5

TextChars == {"1", "2", ",", ".", "a"}

ElementTexts == UNION {[1..n -> TextChars] : n \in 0..MaxTextLen}

ParseInit ==
    \E text \in ElementTexts :
        LET calls == FulfilledCalls([price |-> Num(100), zacks |-> Num(120),
                                     alphaspread |-> Num(90), yahoo |-> Num(105)])
        IN  /\ categories = <<[label |-> "Safe", tickers |-> << <<"K", "O">> >>]>>
            /\ cat = 1
            /\ driver = "processCategory"
            /\ fd = "open"
            /\ output = <<>>
            /\ browser = <<"open">>
            /\ batch = <<"all">>
            /\ task = << <<[calls EXCEPT
                              !.alphaspread =
                                  [pc |-> "close", page |-> "open", handles |-> 0,
                                   err |-> "", timedout |-> FALSE,
                                   data |-> [predictionText |-> text, value |-> NaN]]]>> >>
            /\ summary = << <<PendingSummary>> >>
            /\ written = <<0>>
            /\ faults = 0

ParseNext == \E x \in Calls : getAlphaspreadPrediction_close(x[1], x[2])

ParseSpec == ParseInit /\ [][ParseNext]_vars

(***************************************************************************)
(* Properties                                                              *)
(***************************************************************************)
CallIds == {x \in CatIds \X (1..3) \X Sites : x[2] <= Len(task[x[1]])}

Call(x) == task[x[1]][x[2]][x[3]]

\* Every adapter call of category c has been made and has settled.
BatchEnded(c) ==
    /\ Len(task[c]) > 0
    /\ \A i \in 1..Len(task[c]) : \A s \in Sites : Settled(task[c][i][s])

\* Nothing is left to run: the driver is through or was rejected, and no
\* adapter call is pending.
RunEnded ==
    /\ driver \in {"done", "rejected"}
    /\ \A x \in CallIds : Settled(Call(x))

PrimaryFailed(c) == \E i \in 1..Len(task[c]) : task[c][i].yahoo.pc = "rejected"

RECURSIVE SumWritten(_)
SumWritten(c) == IF c = 0 THEN 0 ELSE written[c] + SumWritten(c - 1)

\* C1: when an adapter call has settled, fulfilled or rejected, the page it
\* opened has been closed.
C1_PageClosedWhenSettled ==
    \A x \in CallIds : Settled(Call(x)) => Call(x).page = "closed"

\* C2: no batch ends with its session still open: once every adapter call
\* of a batch has settled, all fulfilled or some rejected, browser.close()
\* has been called for its session.
C2_SessionReleased ==
    \A c \in CatIds : BatchEnded(c) => browser[c] \in {"closing", "closed"}

\* C3: on the abort path too the descriptor of output.sheets is closed: when
\* a processCategory was rejected and nothing is left to run, fs.closeSync
\* has been called.
C3_OutputClosedOnAbort ==
    (RunEnded /\ driver = "rejected") => fd = "closed"

\* C4: a secondary adapter whose element wait timed out is not rejected, its
\* prediction is the sentinel 0, and neither getSummary for its ticker nor
\* the batch is rejected unless another call of the batch failed.
C4_TimeoutGivesSentinel ==
    \A x \in CallIds :
        (x[3] # "yahoo" /\ Call(x).timedout) =>
            /\ Call(x).pc # "rejected"
            /\ Call(x).pc = "fulfilled" => Call(x).data.value = Num(0)
            /\ batch[x[1]] = "rejected" =>
                  \E y \in CallIds : y # x /\ y[1] = x[1] /\ Call(y).pc = "rejected"

\* C5: if the primary-quote adapter failed for some ticker of a category,
\* processCategory has written nothing for that category, no header, row or
\* blank line, and the file holds only what the categories wrote.
C5_NothingWrittenOnPrimaryFailure ==
    /\ \A c \in CatIds : PrimaryFailed(c) => written[c] = 0
    /\ Len(output) = SumWritten(NumCategories)

\* C5, witness: the primary adapter failed in the second category, every
\* call of it has settled, and the file holds the first category's block.
C5_Witness ==
    /\ NumCategories = 2
    /\ PrimaryFailed(2)
    /\ BatchEnded(2)
    /\ batch[2] = "rejected"
    /\ written[1] > 0
    /\ Len(output) = written[1]

\* C6: getSummaries neither returns nor rejects while an adapter call of
\* its batch is still running.
C6_NoEarlyExit ==
    \A c \in CatIds : batch[c] \in {"close", "returned", "rejected"} => BatchEnded(c)

\* The exact values of the claim: floor((x/P - 1) * 100) and the floor of
\* the mean of three such growths, for integers x and P > 0.
ExactGrowthFloor(P, x) == (100 * (x.n - P.n)) \div P.n

ExactAverageFloor(P, z, a, y) ==
    (100 * (z.n - P.n) + 100 * (a.n - P.n) + 100 * (y.n - P.n)) \div (3 * P.n)

\* C7: in every row each displayed growth is the floor of the growth of its
\* own prediction, and the average is the floor of the mean of the three
\* unfloored growths; for price 100 and predictions 120, 90, 105 the row
\* shows 20, -10, 5 and the average 5.
C7_RowFormula ==
    \A k \in 1..Len(output) :
        output[k].line = "row" =>
            LET r == output[k]
            IN  /\ r.zacks.floor = [k |-> "num", n |-> ExactGrowthFloor(r.price, r.zacks.value)]
                /\ r.alphaspread.floor =
                      [k |-> "num", n |-> ExactGrowthFloor(r.price, r.alphaspread.value)]
                /\ r.yahoo.floor = [k |-> "num", n |-> ExactGrowthFloor(r.price, r.yahoo.value)]
                /\ r.average =
                      [k |-> "num",
                       n |-> ExactAverageFloor(r.price, r.zacks.value,
                                               r.alphaspread.value, r.yahoo.value)]

Distinct(seq) == \A i, j \in 1..Len(seq) : i # j => seq[i] # seq[j]

\* C8: the i-th row of a category block is the row of tickers[i], whatever
\* the ticker strings are (stated for lists without a repeated ticker).
C8_RowsInTickerOrder ==
    (batch[1] = "returned" /\ Distinct(tickersOf(1))) =>
        \A i \in 1..Len(tickersOf(1)) :
            /\ Len(output) >= i + 1
            /\ output[i + 1].line = "row"
            /\ output[i + 1].ticker = tickersOf(1)[i]

\* C9: a category whose batch succeeds gets as many lines as its ticker list
\* has entries, plus two, also when a ticker is repeated.
C9_LineCount ==
    batch[1] = "returned" =>
        /\ written[1] = Len(tickersOf(1)) + 2
        /\ Len(output) = Len(tickersOf(1)) + 2

\* C10: no element handle is left undisposed when the function that
\* acquired it has returned or thrown.
C10_HandlesDisposed ==
    \A x \in CallIds : Call(x).handles = 0

\* A batch is in progress from puppeteer.launch() to the return of
\* getSummaries.
InProgress(c) == batch[c] \in {"launch", "all", "close"}

\* C11: the categories run one after the other with a sleep in between:
\* the driver starts to sleep only when the block of its category is
\* written, the next category is started only by the end of a sleep, the
\* session of a category is launched only when the block of the one before
\* it is written, and at most one batch is in progress.
C11_CategoriesInSequence ==
    [][ /\ (driver # "sleep" /\ driver' = "sleep") =>
               (batch'[cat] = "returned" /\ written'[cat] >= 2)
        /\ \A c \in CatIds :
              /\ (batch[c] = "idle" /\ batch'[c] # "idle") =>
                     (driver = "sleep" /\ c = cat + 1 /\ batch'[c] = "launch")
              /\ (c > 1 /\ browser'[c] # "none") =>
                     (batch'[c - 1] = "returned" /\ written'[c - 1] >= 2)
        /\ \A c, e \in CatIds : (InProgress(c)' /\ InProgress(e)') => c = e
      ]_vars

\* C11, witness: the second category's batch is running, the first one's
\* block is in the file.
C11_Witness ==
    /\ NumCategories = 2
    /\ batch[2] = "all"
    /\ browser[2] = "open"
    /\ batch[1] = "returned"
    /\ Len(output) = written[1]
    /\ written[1] >= 2
\* C12: output.sheets is open from the start, nothing is written to a
\* closed descriptor, the descriptor is closed once, by the step that ends
\* the last category's block, and is not opened again.
C12_WritesBetweenOpenAndClose ==
    [][ /\ output' # output => fd = "open"
        /\ fd' # fd =>
              /\ fd = "open" /\ fd' = "closed"
              /\ \A c \in CatIds : batch'[c] = "returned" /\ written'[c] >= 2
              /\ Len(output') = SumWritten(NumCategories)'
        /\ fd = "closed" => (fd' = "closed" /\ output' = output)
        /\ (fd' = "closed") <=> (driver' = "done")
        /\ (driver \in {"processCategory", "sleep"}) => fd = "open"
      ]_vars

\* C12, witness: every category's block is written and the file is closed.
C12_Witness ==
    /\ fd = "closed"
    /\ driver = "done"
    /\ \A c \in CatIds : batch[c] = "returned" /\ written[c] >= 2
    /\ Len(output) = SumWritten(NumCategories)
\* C13: getSummary is rejected, and produces no Summary, whenever the
\* primary adapter failed, whatever the secondary adapters returned, and
\* whenever a secondary adapter failed with an error other than a
\* TimeoutError.
C13_GetSummaryFails ==
    \A c \in CatIds : \A i \in 1..Len(task[c]) :
        (\/ task[c][i].yahoo.pc = "rejected"
         \/ \E s \in Sites \ {"yahoo"} :
               task[c][i][s].pc = "rejected" /\ task[c][i][s].err # "TimeoutError")
        => /\ summary[c][i].state = "rejected"
           /\ summary[c][i].value = <<>>
           /\ batch[c] = "rejected"

\* C13, witness: both secondary adapters have returned their prediction,
\* the primary adapter has failed, and getSummary is rejected.
C13_Witness ==
    \E c \in CatIds : \E i \in 1..Len(task[c]) :
        /\ task[c][i].zacks.pc = "fulfilled"
        /\ task[c][i].alphaspread.pc = "fulfilled"
        /\ task[c][i].yahoo.pc = "rejected"
        /\ summary[c][i].state = "rejected"
\* C14: once a processCategory is rejected the driver stays rejected: no
\* later category is started, no session is launched, no sleep is started
\* and no line is written.
C14_RejectionAbortsRun ==
    [][ driver = "rejected" =>
           /\ driver' = "rejected"
           /\ cat' = cat
           /\ output' = output
           /\ written' = written
           /\ \A c \in CatIds :
                 /\ browser[c] = "none" => browser'[c] = "none"
                 /\ batch[c] = "idle" => batch'[c] = "idle"
      ]_vars

\* C14, witness: the first category was rejected, its adapter calls have
\* all settled, and the second category was never started.
C14_Witness ==
    /\ NumCategories = 2
    /\ driver = "rejected"
    /\ cat = 1
    /\ BatchEnded(1)
    /\ batch[2] = "idle"
    /\ browser[2] = "none"
    /\ output = <<>>
\* What the specification takes for a numeric string: digits, plain or in
\* groups of three separated by ",", then optionally "." and digits; and
\* the decimal value such a string denotes.
PlainDigits(s) == s # <<>> /\ \A i \in 1..Len(s) : s[i] \in Digits

GroupedDigits(s) ==
    /\ Len(s) >= 5
    /\ Len(s) % 4 # 0
    /\ \A i \in 1..Len(s) :
          IF (Len(s) - i + 1) % 4 = 0 THEN s[i] = "," ELSE s[i] \in Digits

PointAt(s) ==
    IF \E i \in 1..Len(s) : s[i] = "."
    THEN CHOOSE i \in 1..Len(s) : s[i] = "." /\ \A j \in 1..(i - 1) : s[j] # "."
    ELSE Len(s) + 1

IsNumeric(s) ==
    LET ip == SubSeq(s, 1, PointAt(s) - 1)
        fp == SubSeq(s, PointAt(s) + 1, Len(s))
    IN  /\ PlainDigits(ip) \/ GroupedDigits(ip)
        /\ PointAt(s) > Len(s) \/ PlainDigits(fp)

\* A string that is no number on any reading: it holds a character that is
\* no digit, "," or ".", or it holds no digit.
NotANumber(s) ==
    /\ s # <<>>
    /\ \/ \E i \in 1..Len(s) : s[i] \notin Digits \cup {",", "."}
       \/ \A i \in 1..Len(s) : s[i] \notin Digits

DecimalValue(s) ==
    LET ip == SelectSeq(SubSeq(s, 1, PointAt(s) - 1), LAMBDA ch : ch # ",")
        fp == SubSeq(s, PointAt(s) + 1, Len(s))
    IN  Reduce(DigitsValue(ip \o fp, 0), 10 ^ Len(fp))

\* C15: getFloat returns the decimal value of every numeric string, one
\* with a thousands separator included, throws the empty error for the
\* empty string and the not-a-number error for every other string, one
\* with a numeric prefix included.
C15_GetFloatNormalizes ==
    [][ \A x \in Calls :
           LET t == task[x[1]][x[2]].alphaspread
               u == task'[x[1]][x[2]].alphaspread
               s == replaceAll(t.data.predictionText, " ")
           IN  (t.pc = "close" /\ u.pc # "close") =>
                  /\ s = <<>> => (u.pc = "rejected" /\ u.err = "empty")
                  /\ IsNumeric(s) =>
                        (u.pc = "fulfilled" /\ u.data.value = DecimalValue(s))
                  /\ NotANumber(s) =>
                        (u.pc = "rejected" /\ u.err = "not a number")
      ]_vars
\* C16: every record getYahooFinanceData returns, and so every Summary,
\* has price > 0.
C16_PricePositive ==
    \A c \in CatIds : \A i \in 1..Len(task[c]) :
        /\ task[c][i].yahoo.pc = "fulfilled" =>
              (task[c][i].yahoo.data.price.k = "num" /\ task[c][i].yahoo.data.price.n > 0)
        /\ summary[c][i].state = "fulfilled" =>
              summary[c][i].value.yahooFinance.price.n > 0
\* C17: getSummaries starts the aggregation of every ticker, and each
\* aggregation its three adapters, before any of them has completed: the
\* step that leaves the launch starts them all, none settled, and every
\* batch under way has one aggregation per ticker.
C17_AllStartedAtOnce ==
    [][ \A c \in CatIds :
           /\ (batch[c] = "launch" /\ batch'[c] # "launch") =>
                 /\ Len(task'[c]) = Len(tickersOf(c))
                 /\ Len(summary'[c]) = Len(tickersOf(c))
                 /\ \A i \in 1..Len(task'[c]) :
                       /\ summary'[c][i].state = "pending"
                       /\ \A s \in Sites : task'[c][i][s].pc = "newPage"
           /\ batch'[c] \notin {"idle", "launch"} =>
                 (Len(task'[c]) = Len(tickersOf(c)) /\ DOMAIN task'[c][1] = Sites)
      ]_vars

\* C17, witness: the two aggregations of the first category are in flight
\* at once, each of their six adapter calls on its page and none settled.
C17_Witness ==
    /\ Len(tickersOf(1)) = 2
    /\ Len(task[1]) = 2
    /\ \A i \in 1..2 : \A s \in Sites :
          /\ task[1][i][s].page = "open"
          /\ ~Settled(task[1][i][s])
          /\ task[1][i][s].pc # "newPage"
    /\ \A i \in 1..2 : summary[1][i].state = "pending"
\* C18: browser.close() is called on a session only when every adapter
\* call of its batch has returned and every page of it is closed, so that
\* nothing operates on a session that is closing or closed.
C18_NoUseOfClosedBrowser ==
    \A c \in CatIds :
        browser[c] \in {"closing", "closed"} =>
            /\ Len(task[c]) = Len(tickersOf(c))
            /\ \A i \in 1..Len(task[c]) : \A s \in Sites :
                  /\ task[c][i][s].pc = "fulfilled"
                  /\ task[c][i][s].page = "closed"

\* C18, witness: the session of the first category is closed, the one of
\* the second is open with an adapter call failed and another still running.
C18_Witness ==
    /\ NumCategories = 2
    /\ browser[1] = "closed"
    /\ browser[2] = "open"
    /\ \E i \in 1..Len(task[2]) : \E s, r \in Sites :
          /\ task[2][i][s].pc = "rejected"
          /\ ~Settled(task[2][i][r])
\* The value of a property of an object.
Lookup(obj, key) == obj.val[CHOOSE j \in 1..Len(obj.keys) : obj.keys[j] = key]

\* C19: whatever the order in which the calls completed, the mapping
\* getSummaries returns for distinct tickers has exactly the tickers as
\* keys and gives each ticker the Summary made of its own three adapter
\* results, predictions.yahoo being its own yahooFinance.prediction.
C19_MappingByTicker ==
    \A c \in CatIds :
        (batch[c] \in {"close", "returned"} /\ Distinct(tickersOf(c))) =>
            LET m == getSummariesResult(c)
            IN  /\ Len(m.keys) = Len(tickersOf(c))
                /\ \A i \in 1..Len(tickersOf(c)) :
                      /\ HasKey(m, tickersOf(c)[i])
                      /\ Lookup(m, tickersOf(c)[i]) =
                            [yahooFinance |-> task[c][i].yahoo.data,
                             predictions  |->
                                [zacks       |-> task[c][i].zacks.data.value,
                                 alphaspread |-> task[c][i].alphaspread.data.value,
                                 yahoo       |-> task[c][i].yahoo.data.prediction]]

\* C19, witness: the batch of two distinct tickers has returned, and the
\* two tickers have different summaries.
C19_Witness ==
    /\ batch[1] = "returned"
    /\ Len(tickersOf(1)) = 2
    /\ Distinct(tickersOf(1))
    /\ summary[1][1].value # summary[1][2].value
\* The rows that have a day of the current week.
WeekOf(rows) == SelectSeq(rows, LAMBDA e : e[1] >= Monday)

\* C20: when no row of the history is of the current week,
\* getYahooFinanceData returns no record: the call is rejected, and with
\* it getSummary and the batch, and the category's report is not written;
\* a call that goes on has the growth of a week that has rows.
C20_EmptyWeekRejects ==
    [][ \A x \in {y \in Calls : y[2] <= Len(task[y[1]])} :
           LET t == task[x[1]][x[2]].yahoo
               u == task'[x[1]][x[2]].yahoo
           IN  /\ (t.pc = "history" /\ u.pc # "history") =>
                     /\ faults' < faults =>
                           /\ u.pc = "rejected"
                           /\ u.err = "TypeError"
                           /\ summary'[x[1]][x[2]].state = "rejected"
                           /\ batch'[x[1]] = "rejected"
                     /\ u.pc # "rejected" =>
                           u.data.weekGrowthPercentage \in
                              {weekGrowthPercentage(rows).value :
                                  rows \in {r \in HistoryOutcomes : WeekOf(r) # <<>>}}
               /\ (u.pc = "rejected" /\ u.err = "TypeError") =>
                     (written'[x[1]] = 0 /\ batch'[x[1]] = "rejected")
      ]_vars

\* C20, witness: a call of the second category was rejected for an empty
\* week, every call of the category has settled, and nothing of the
\* category is in the file.
C20_Witness ==
    /\ NumCategories = 2
    /\ \E i \in 1..Len(task[2]) :
          task[2][i].yahoo.pc = "rejected" /\ task[2][i].yahoo.err = "TypeError"
    /\ BatchEnded(2)
    /\ written[2] = 0
    /\ Len(output) = written[1]

====
